---- MODULE Spec2Model ----
(***************************************************************************)
(* Model of areq.py: the concurrent fetch / parse / write pipeline         *)
(*   bulk_crawl_and_write -> write_one -> parse -> fetch_html.             *)
(* One asyncio task per seed URL; a task gives up control only at an       *)
(* await, so every action below is the code between two awaits of one      *)
(* coroutine. The one exception is the return of resp.text() and the else  *)
(* clause of parse, which are two steps (fetch_html_text, parse_else) with *)
(* no await between them: both touch only the task's own variables.        *)
(*                                                                         *)
(* Exceptions out of aiohttp, asyncio timeouts and urljoin are Exception   *)
(* subclasses. The cancellation of tasks by the caller (asyncio.run after  *)
(* bulk_crawl_and_write has raised) is not part of the model: the tasks    *)
(* left behind by gather keep running. A request or a body read that is    *)
(* still pending when the session is closed may end either way.            *)
(*                                                                         *)
(* The file object of aiofiles.open buffers what f.write is given and puts *)
(* it into the file in whole f.write strings, when the buffer is full and  *)
(* on close; every such flush is one append to the file (mode "a").        *)
(***************************************************************************)
EXTENDS Integers, Sequences, FiniteSets, TLC

VARIABLES
    urls,        \* the seed set handed to bulk_crawl_and_write
    mainPc,      \* position of bulk_crawl_and_write
    session,     \* the ClientSession: "none", "open", "closed"
    nSessions,   \* how many ClientSessions were created
    pc,          \* pc[u]: position of the write_one task of seed u
    nGet,        \* nGet[u]: GET requests issued for u
    status,      \* status[u]: resp.status of u's response, 0 when none
    html,        \* html[u]: parse's local html, the body fetch_html returned
    res,         \* res[u]: the set parse returned to write_one
    todo,        \* todo[u]: links of res[u] the for loop has not written yet
    buf,         \* buf[u]: text held by u's file object, not yet in the file
    log,         \* log[u]: the log events emitted for u
    sink         \* the output file, a sequence of text pieces

vars == <<urls, mainPc, session, nSessions, pc, nGet, status, html, res, todo,
          buf, log, sink>>

-----------------------------------------------------------------------------
(* Bounds *)

\* Longest page, counted in href="..." matches.
MaxHrefs == 2

\* Capacity of a file object's write buffer, counted in text pieces
\* (a row is four pieces).
BufSize == 6

-----------------------------------------------------------------------------
(* Data *)

\* A URL is <<host, path>>.
AllURLs == {<<"a", "/">>, <<"b", "/">>}

TAB == <<"\t">>
NL == <<"\n">>

\* The header line the entry point writes before the crawl.
Header == <<<<"source_url">>, TAB, <<"parsed_url">>, NL>>

\* The values HREF_RE.findall can yield: <<kind, host, path>>.
\* "abs" is an absolute URL, "rel" a path on the page's own host, "bad" a
\* value urljoin rejects with ValueError.
Hrefs == {<<"rel", "", "/x">>, <<"abs", "h", "/y">>, <<"bad", "", "">>}

\* The pages a server may return, as the sequence of href values in them.
Pages == UNION {[1..n -> Hrefs] : n \in 0..MaxHrefs}

\* Final status codes a server may answer with.
Statuses == {200, 299, 300, 400, 503}

\* Exceptions session.request / resp.text can raise.
FetchExceptions == {"ClientError", "HttpProcessingError", "TimeoutError",
                    "RuntimeError"}

-----------------------------------------------------------------------------
(* Pure functions *)

\* Mutant: the status 400 itself is let through.
raise_for_status_above_400(s) == s > 400

\* resp.raise_for_status(): raises ClientResponseError for 400 and above.
raise_for_status(s) == s >= 400

\* The first except clause of parse.
IsAiohttpException(e) == e \in {"ClientError", "HttpProcessingError"}

\* urllib.parse.urljoin(url, link) raises ValueError.
urljoin_raises(link) == link[1] = "bad"

\* urllib.parse.urljoin(url, link).
urljoin(url, link) ==
    IF link[1] = "abs" THEN <<link[2], link[3]>> ELSE <<url[1], link[3]>>

\* Mutant: one try around the whole loop, so that an href that fails to
\* resolve ends the extraction with nothing.
parse_links_abort(url, body, i, found) ==
    IF \E j \in i..Len(body) : urljoin_raises(body[j]) THEN {}
    ELSE found \cup {urljoin(url, body[j]) : j \in i..Len(body)}

\* Mutant: a link met a second time is taken out of found again.
parse_links_toggle(url, body, i, found) ==
    LET occ(l) == Cardinality({j \in i..Len(body) :
                     ~urljoin_raises(body[j]) /\ urljoin(url, body[j]) = l})
    IN (found \ {l \in found : occ(l) % 2 = 1}) \cup
       {urljoin(url, body[j]) : j \in {k \in i..Len(body) :
            /\ ~urljoin_raises(body[k])
            /\ urljoin(url, body[k]) \notin found
            /\ occ(urljoin(url, body[k])) % 2 = 1}}

\* Mutant: the loop is left at the first href that fails to resolve.
parse_links_break(url, body, i, found) ==
    LET bad == {j \in i..Len(body) : urljoin_raises(body[j])}
        last == IF bad = {} THEN Len(body)
                ELSE (CHOOSE j \in bad : \A k \in bad : j <= k) - 1
    IN found \cup {urljoin(url, body[j]) : j \in i..last}

\* The for loop of parse over the matches, from match i on.
RECURSIVE parse_links(_, _, _, _)
parse_links(url, body, i, found) ==
    IF i > Len(body) THEN found
    ELSE IF urljoin_raises(body[i]) THEN parse_links(url, body, i + 1, found)
    ELSE parse_links(url, body, i + 1, found \cup {urljoin(url, body[i])})

\* Whether the loop logs "Error parsing URL".
parse_logs_error(body) == \E i \in 1..Len(body) : urljoin_raises(body[i])

\* Mutant: the two columns swapped.
FormatRow_swapped(url, p) == <<p, TAB, url, NL>>

\* f"{url}\t{p}\n"
FormatRow(url, p) == <<url, TAB, p, NL>>

\* Mutant: a full buffer is dropped instead of being put into the file.
BufferedWrite_drops(b, data) ==
    IF Len(b) + Len(data) <= BufSize THEN [buf |-> b \o data, out |-> <<>>]
    ELSE [buf |-> data, out |-> <<>>]

\* What BufferedWriter.write does with data: [buf |-> the new buffer,
\* out |-> what goes to the file now].
BufferedWrite(b, data) ==
    IF Len(b) + Len(data) <= BufSize THEN [buf |-> b \o data, out |-> <<>>]
    ELSE IF Len(data) > BufSize THEN [buf |-> <<>>, out |-> b \o data]
    ELSE [buf |-> data, out |-> b]

-----------------------------------------------------------------------------
(* Initial state: bulk_crawl_and_write(file, urls) has just been called *)

Init ==
    /\ urls \in SUBSET AllURLs
    /\ mainPc = "start"
    /\ session = "none"
    /\ nSessions = 0
    /\ pc = [u \in AllURLs |-> "none"]
    /\ nGet = [u \in AllURLs |-> 0]
    /\ status = [u \in AllURLs |-> 0]
    /\ html = [u \in AllURLs |-> <<>>]
    /\ res = [u \in AllURLs |-> {}]
    /\ todo = [u \in AllURLs |-> {}]
    /\ buf = [u \in AllURLs |-> <<>>]
    /\ log = [u \in AllURLs |-> {}]
    /\ sink = Header

-----------------------------------------------------------------------------
(* bulk_crawl_and_write *)

\* ClientSession() is created and entered, one write_one coroutine is made
\* per seed, and gather schedules each as a task.
bulk_crawl_and_write_enter ==
    /\ mainPc = "start"
    /\ mainPc' = "gather"
    /\ session' = "open"
    /\ nSessions' = nSessions + 1
    /\ pc' = [u \in AllURLs |-> IF u \in urls THEN "scheduled" ELSE "none"]
    /\ UNCHANGED <<html, urls, nGet, status, res, todo, buf, log, sink>>

\* Mutant: the tasks are made and scheduled before the session is created,
\* so that they run although creating it failed.
bulk_crawl_and_write_setup_fails_late ==
    /\ mainPc = "start"
    /\ mainPc' = "setup_error"
    /\ pc' = [u \in AllURLs |-> IF u \in urls THEN "scheduled" ELSE "none"]
    /\ UNCHANGED <<html, urls, session, nSessions, nGet, status, res, todo, buf,
                   log, sink>>

\* ClientSession() raises: the exception leaves bulk_crawl_and_write before
\* the body of the async with runs.
bulk_crawl_and_write_setup_fails ==
    /\ mainPc = "start"
    /\ mainPc' = "setup_error"
    /\ UNCHANGED <<html, urls, session, nSessions, pc, nGet, status, res, todo, buf,
                   log, sink>>

\* gather delivers the results: every task has returned. The async with
\* closes the session and the function returns.
bulk_crawl_and_write_return ==
    /\ mainPc = "gather"
    /\ \A u \in urls : pc[u] = "done"
    /\ mainPc' = "returned"
    /\ session' = "closed"
    /\ UNCHANGED <<html, urls, nSessions, pc, nGet, status, res, todo, buf, log, sink>>

\* gather (return_exceptions left False) passes on the first exception of a
\* task at once; the other tasks are not cancelled and keep running. The
\* async with closes the session and the exception leaves the function.
bulk_crawl_and_write_raise ==
    /\ mainPc = "gather"
    /\ \E u \in urls : pc[u] = "raised"
    /\ mainPc' = "raised"
    /\ session' = "closed"
    /\ UNCHANGED <<html, urls, nSessions, pc, nGet, status, res, todo, buf, log, sink>>

-----------------------------------------------------------------------------
(* write_one / parse / fetch_html, one task per seed *)

\* The tasks gather scheduled run their first step in turn before the event
\* loop handles any I/O completion.
AllStarted == \A v \in urls : pc[v] # "scheduled"

\* First step of the task: write_one calls parse, parse calls fetch_html,
\* which issues the GET and waits for the response.
write_one_start(u) ==
    /\ pc[u] = "scheduled"
    /\ pc' = [pc EXCEPT ![u] = "fetching"]
    /\ nGet' = [nGet EXCEPT ![u] = @ + 1]
    /\ UNCHANGED <<html, urls, mainPc, session, nSessions, status, res, todo, buf,
                   log, sink>>

\* Mutant: the failed fetch is tried again instead of being given up.
parse_except_retry(u, e) ==
    /\ log' = [log EXCEPT ![u] = @ \cup
                 {IF IsAiohttpException(e) THEN "aiohttp_exception"
                                           ELSE "non_aiohttp_exception"}]
    /\ res' = [res EXCEPT ![u] = {}]
    /\ pc' = [pc EXCEPT ![u] = "fetching"]

\* Mutant: after a failed fetch the whole unit is run again.
parse_except_rerun(u, e) ==
    /\ log' = [log EXCEPT ![u] = @ \cup
                 {IF IsAiohttpException(e) THEN "aiohttp_exception"
                                           ELSE "non_aiohttp_exception"}]
    /\ res' = [res EXCEPT ![u] = {}]
    /\ pc' = [pc EXCEPT ![u] = "scheduled"]

\* What parse does with an exception e out of fetch_html: log it in the
\* matching except clause and return the empty set; write_one then returns
\* None without touching the file.
parse_except(u, e) ==
    /\ log' = [log EXCEPT ![u] = @ \cup
                 {IF IsAiohttpException(e) THEN "aiohttp_exception"
                                           ELSE "non_aiohttp_exception"}]
    /\ res' = [res EXCEPT ![u] = {}]
    /\ pc' = [pc EXCEPT ![u] = "done"]

\* session.request raises (DNS, connect, reset, timeout, closed session).
fetch_html_request_raises(u, e) ==
    /\ pc[u] = "fetching"
    /\ AllStarted
    /\ parse_except(u, e)
    /\ UNCHANGED <<html, urls, mainPc, session, nSessions, nGet, status, todo, buf,
                   sink>>

\* Mutant: fetch_html returns without waiting for resp.text(), and parse
\* starts on a body that has not been read.
fetch_html_response_no_read(u, s) ==
    /\ pc[u] = "fetching"
    /\ AllStarted
    /\ status' = [status EXCEPT ![u] = s]
    /\ IF raise_for_status(s)
         THEN parse_except(u, "ClientError")
         ELSE /\ log' = [log EXCEPT ![u] = @ \cup {"got_response"}]
              /\ pc' = [pc EXCEPT ![u] = "parsing"]
              /\ UNCHANGED res
    /\ UNCHANGED <<html, urls, mainPc, session, nSessions, nGet, todo, buf, sink>>

\* session.request returns a response with status s; raise_for_status
\* either raises ClientResponseError or lets fetch_html go on to read the
\* body.
fetch_html_response(u, s) ==
    /\ pc[u] = "fetching"
    /\ AllStarted
    /\ status' = [status EXCEPT ![u] = s]
    /\ IF raise_for_status(s)
         THEN parse_except(u, "ClientError")
         ELSE /\ log' = [log EXCEPT ![u] = @ \cup {"got_response"}]
              /\ pc' = [pc EXCEPT ![u] = "reading"]
              /\ UNCHANGED res
    /\ UNCHANGED <<html, urls, mainPc, session, nSessions, nGet, todo, buf, sink>>

\* resp.text() raises (payload error, timeout, undecodable body).
fetch_html_text_raises(u, e) ==
    /\ pc[u] = "reading"
    /\ parse_except(u, e)
    /\ UNCHANGED <<html, urls, mainPc, session, nSessions, nGet, status, todo, buf,
                   sink>>

\* resp.text() returns the body and fetch_html returns it to parse.
fetch_html_text(u, body) ==
    /\ pc[u] = "reading"
    /\ html' = [html EXCEPT ![u] = body]
    /\ pc' = [pc EXCEPT ![u] = "parsing"]
    /\ UNCHANGED <<urls, mainPc, session, nSessions, nGet, status, res, todo,
                   buf, log, sink>>

\* Mutant: write_one lacks the test of res and opens the file for an empty
\* set too.
parse_else_always_opens(u) ==
    /\ pc[u] = "parsing"
    /\ LET found == parse_links(u, html[u], 1, {}) IN
         /\ res' = [res EXCEPT ![u] = found]
         /\ log' = [log EXCEPT ![u] = @ \cup {"found_links"} \cup
                      (IF parse_logs_error(html[u]) THEN {"error_parsing_url"}
                                                    ELSE {})]
         /\ pc' = [pc EXCEPT ![u] = "opening"]
    /\ html' = [html EXCEPT ![u] = <<>>]
    /\ UNCHANGED <<urls, mainPc, session, nSessions, nGet, status, todo, buf,
                   sink>>

\* The else clause of parse: the loop over the matches, the "Found" log
\* event and the return of found; write_one returns None for an empty set
\* and otherwise starts opening the file. No await in between.
parse_else(u) ==
    /\ pc[u] = "parsing"
    /\ LET found == parse_links(u, html[u], 1, {}) IN
         /\ res' = [res EXCEPT ![u] = found]
         /\ log' = [log EXCEPT ![u] = @ \cup {"found_links"} \cup
                      (IF parse_logs_error(html[u]) THEN {"error_parsing_url"}
                                                    ELSE {})]
         /\ pc' = [pc EXCEPT ![u] = IF found = {} THEN "done" ELSE "opening"]
    /\ html' = [html EXCEPT ![u] = <<>>]
    /\ UNCHANGED <<urls, mainPc, session, nSessions, nGet, status, todo, buf,
                   sink>>

\* Mutant: the file is opened with mode "w", which empties it.
write_one_open_truncates(u) ==
    /\ pc[u] = "opening"
    /\ pc' = [pc EXCEPT ![u] = "writing"]
    /\ todo' = [todo EXCEPT ![u] = res[u]]
    /\ buf' = [buf EXCEPT ![u] = <<>>]
    /\ sink' = <<>>
    /\ UNCHANGED <<html, urls, mainPc, session, nSessions, nGet, status, res,
                   log>>

\* aiofiles.open(file, "a") returns the file object; the for loop starts.
write_one_open(u) ==
    /\ pc[u] = "opening"
    /\ pc' = [pc EXCEPT ![u] = "writing"]
    /\ todo' = [todo EXCEPT ![u] = res[u]]
    /\ buf' = [buf EXCEPT ![u] = <<>>]
    /\ UNCHANGED <<html, urls, mainPc, session, nSessions, nGet, status, res, log,
                   sink>>

\* aiofiles.open raises OSError; nothing in write_one catches it.
write_one_open_raises(u) ==
    /\ pc[u] = "opening"
    /\ pc' = [pc EXCEPT ![u] = "raised"]
    /\ UNCHANGED <<html, urls, mainPc, session, nSessions, nGet, status, res, todo,
                   buf, log, sink>>

\* One pass of the for loop: f.write of the row of link p. After the last
\* row the "Wrote results" event is logged and the async with starts to
\* close the file.
write_one_write(u, p) ==
    /\ pc[u] = "writing"
    /\ p \in todo[u]
    /\ LET w == BufferedWrite(buf[u], FormatRow(u, p)) IN
         /\ buf' = [buf EXCEPT ![u] = w.buf]
         /\ sink' = sink \o w.out
    /\ todo' = [todo EXCEPT ![u] = @ \ {p}]
    /\ IF todo[u] = {p}
         THEN /\ pc' = [pc EXCEPT ![u] = "closing"]
              /\ log' = [log EXCEPT ![u] = @ \cup {"wrote_results"}]
         ELSE UNCHANGED <<pc, log>>
    /\ UNCHANGED <<html, urls, mainPc, session, nSessions, nGet, status, res>>

\* f.write raises OSError when it has to put text into the file and cannot.
\* The async with still closes the file, which may or may not get the
\* buffered text out; the exception then leaves write_one.
write_one_write_raises(u, p, flushed) ==
    /\ pc[u] = "writing"
    /\ p \in todo[u]
    /\ BufferedWrite(buf[u], FormatRow(u, p)).out # <<>>
    /\ pc' = [pc EXCEPT ![u] = "raised"]
    /\ sink' = IF flushed THEN sink \o buf[u] ELSE sink
    /\ buf' = [buf EXCEPT ![u] = <<>>]
    /\ UNCHANGED <<html, urls, mainPc, session, nSessions, nGet, status, res, todo,
                   log>>

\* The async with closes the file: the buffered text goes to the file.
write_one_close(u) ==
    /\ pc[u] = "closing"
    /\ sink' = sink \o buf[u]
    /\ buf' = [buf EXCEPT ![u] = <<>>]
    /\ pc' = [pc EXCEPT ![u] = "done"]
    /\ UNCHANGED <<html, urls, mainPc, session, nSessions, nGet, status, res, todo,
                   log>>

\* close raises OSError on its flush; the buffered text is lost.
write_one_close_raises(u) ==
    /\ pc[u] = "closing"
    /\ buf[u] # <<>>
    /\ buf' = [buf EXCEPT ![u] = <<>>]
    /\ pc' = [pc EXCEPT ![u] = "raised"]
    /\ UNCHANGED <<html, urls, mainPc, session, nSessions, nGet, status, res, todo,
                   log, sink>>

-----------------------------------------------------------------------------

Next ==
    \/ bulk_crawl_and_write_enter
    \/ bulk_crawl_and_write_setup_fails
    \/ bulk_crawl_and_write_return
    \/ bulk_crawl_and_write_raise
    \/ \E u \in urls : write_one_start(u)
    \/ \E u \in urls, e \in FetchExceptions : fetch_html_request_raises(u, e)
    \/ \E u \in urls, s \in Statuses : fetch_html_response(u, s)
    \/ \E u \in urls, e \in FetchExceptions : fetch_html_text_raises(u, e)
    \/ \E u \in urls, body \in Pages : fetch_html_text(u, body)
    \/ \E u \in urls : parse_else(u)
    \/ \E u \in urls : write_one_open(u)
    \/ \E u \in urls : write_one_open_raises(u)
    \/ \E u \in urls : \E p \in todo[u] : write_one_write(u, p)
    \/ \E u \in urls : \E p \in todo[u], flushed \in BOOLEAN :
          write_one_write_raises(u, p, flushed)
    \/ \E u \in urls : write_one_close(u)
    \/ \E u \in urls : write_one_close_raises(u)

Spec == Init /\ [][Next]_vars

\* The event loop runs every task that can run, and every I/O wait ends (a
\* response, an error, or the request's timeout).
FairSpec == Spec /\ WF_vars(Next)

-----------------------------------------------------------------------------
(* Reading the sink back *)

\* The lines of text s from piece i on, each with its terminator; cur is
\* the line being read. Text after the last terminator is a line too.
RECURSIVE SplitLines(_, _, _)
SplitLines(s, i, cur) ==
    IF i > Len(s) THEN (IF cur = <<>> THEN <<>> ELSE <<cur>>)
    ELSE IF s[i] = NL THEN <<Append(cur, NL)>> \o SplitLines(s, i + 1, <<>>)
    ELSE SplitLines(s, i + 1, Append(cur, s[i]))

SinkLines == SplitLines(sink, 1, <<>>)

\* The lines after the header line.
DataLines == SubSeq(SinkLines, 2, Len(SinkLines))

\* A complete source<TAB>target<NEWLINE> line.
IsRow(line) ==
    /\ Len(line) = 4
    /\ Len(line[1]) = 2 /\ line[2] = TAB /\ Len(line[3]) = 2 /\ line[4] = NL

\* Positions of the data lines that are the row (u, l).
RowsAt(u, l) == {i \in 1..Len(DataLines) : DataLines[i] = <<u, TAB, l, NL>>}

\* Positions of the data lines whose source is u.
RowsOf(u) == {i \in 1..Len(DataLines) : DataLines[i][1] = u}

RECURSIVE SumCard(_, _)
SumCard(f, S) ==
    IF S = {} THEN 0
    ELSE LET u == CHOOSE x \in S : TRUE IN Cardinality(f[u]) + SumCard(f, S \ {u})

UnitFinished(u) == pc[u] \in {"done", "raised"}
AllFinished == \A u \in urls : UnitFinished(u)
MainFinished == mainPc \in {"returned", "raised"}
FetchFailed(u) ==
    log[u] \cap {"aiohttp_exception", "non_aiohttp_exception"} # {}
InParse(u) == pc[u] \in {"fetching", "reading", "parsing"}

-----------------------------------------------------------------------------
(* Claims *)

\* C1 (as stated): once the run is over, for every seed u whose fetch
\* failed, bulk_crawl_and_write has returned normally, the task of every
\* other seed has run to completion, and the sink holds no line whose
\* source is u.
C1_Isolation ==
    (MainFinished /\ AllFinished) =>
        \A u \in urls :
            FetchFailed(u) =>
                /\ mainPc = "returned"
                /\ \A v \in urls \ {u} : pc[v] = "done"
                /\ RowsOf(u) = {}

\* C2 (as stated): the rows of one source are consecutive in the sink: no
\* line of another source lies between two lines of the same source.
C2_BatchAtomic ==
    \A i, j, k \in 1..Len(DataLines) :
        (i < j /\ j < k /\ DataLines[i][1] = DataLines[k][1]) =>
            DataLines[j][1] = DataLines[i][1]

\* C3: once bulk_crawl_and_write has returned, every data line of the sink
\* is a complete source<TAB>target<NEWLINE> line, there are as many of them
\* as the tasks produced links (N * M for N tasks of M links each), and
\* every link of every task is there exactly once.
C3_NoTornOrLostLines ==
    mainPc = "returned" =>
        /\ \A i \in 1..Len(DataLines) : IsRow(DataLines[i])
        /\ Len(DataLines) = SumCard(res, urls)
        /\ \A u \in urls : \A l \in res[u] : Cardinality(RowsAt(u, l)) = 1

\* C3 witness: two tasks of two links each ran concurrently, their batches
\* ended up interleaved, and the function has returned.
C3_Witness ==
    /\ mainPc = "returned"
    /\ \A u \in AllURLs : u \in urls /\ Cardinality(res[u]) = 2
    /\ ~C2_BatchAtomic

\* C4 (as stated): bulk_crawl_and_write has returned, normally or with an
\* exception, only when every scheduled write_one task has completed.
C4_FanInBarrier == MainFinished => AllFinished

\* C5 (as stated): a failure to open or write the sink never leaves
\* write_one as an exception and never reaches bulk_crawl_and_write: no
\* task ends raising and the function does not raise.
C5_SinkFailureContained ==
    /\ \A u \in urls : pc[u] # "raised"
    /\ mainPc # "raised"

\* C6 (as stated): one ClientSession per call; it is open while any task is
\* inside parse, closed only after every parse call has completed, and
\* closed once bulk_crawl_and_write is over.
C6_SessionLifetime ==
    /\ nSessions <= 1
    /\ (mainPc \in {"gather", "returned", "raised"} => nSessions = 1)
    /\ \A u \in urls : (pc[u] = "scheduled" \/ InParse(u)) => session = "open"
    /\ MainFinished => session = "closed"

\* The links of the hrefs of body that resolve against url.
ResolvedLinks(url, body) ==
    {urljoin(url, body[i]) : i \in {j \in 1..Len(body) : ~urljoin_raises(body[j])}}

\* Task u has left parse (parse has returned to write_one).
ParseReturned(u) == pc[u] \in {"done", "opening", "writing", "closing", "raised"}

\* C7 (as stated): whenever parse has returned after logging a failure of
\* any kind, from the fetch or from the link extraction, it has returned
\* the empty set.
C7_EmptyOnAnyFailure ==
    \A u \in urls :
        (ParseReturned(u) /\ (FetchFailed(u) \/ "error_parsing_url" \in log[u]))
            => res[u] = {}

\* C7 (as amended): parse never raises to its caller: a task leaves parse
\* only by parse returning. After a failure of the fetch, parse has logged
\* it and returns the empty set. A failure to resolve one href is logged
\* and leaves out that href only: parse returns the links of all the other
\* hrefs of the page.
C7_ParseContainsFailures ==
    [][\A u \in AllURLs :
          (InParse(u) /\ pc'[u] \notin {"fetching", "reading", "parsing"}) =>
              /\ pc'[u] = (IF res'[u] = {} THEN "done" ELSE "opening")
              /\ pc[u] # "parsing" => (res'[u] = {} /\ FetchFailed(u)')
              /\ pc[u] = "parsing" =>
                    /\ res'[u] = ResolvedLinks(u, html[u])
                    /\ parse_logs_error(html[u]) =>
                           "error_parsing_url" \in log'[u]]_vars

\* C7 witness: parse has returned a non-empty set for a page one of whose
\* hrefs failed to resolve, while the fetch of another seed failed.
C7_Witness ==
    \E u, v \in urls :
        /\ ParseReturned(u) /\ "error_parsing_url" \in log[u] /\ res[u] # {}
        /\ ParseReturned(v) /\ FetchFailed(v) /\ res[v] = {}

\* C8: unless creating the session fails, the run comes to its end:
\* bulk_crawl_and_write is left and every task has finished, so that every
\* fetch in flight has resolved, to a body or to an exception, and no task
\* waits forever.
C8_Termination ==
    <>(mainPc = "setup_error" \/ (MainFinished /\ AllFinished))

\* C8 witness: the run has returned although one fetch ended in a
\* non-aiohttp exception (a timeout) while another task wrote its rows.
C8_Witness ==
    /\ mainPc = "returned"
    /\ \E u, v \in urls :
          /\ "non_aiohttp_exception" \in log[u]
          /\ "wrote_results" \in log[v]

NoRows(u) == res[u] = {} /\ RowsOf(u) = {} /\ "wrote_results" \notin log[u]

C11_FatalSetup ==
    mainPc = "setup_error" =>
        /\ session = "none" /\ nSessions = 0
        /\ \A u \in AllURLs :
              /\ pc[u] = "none" /\ nGet[u] = 0
              /\ log[u] = {} /\ buf[u] = <<>>
        /\ sink = Header

\* C11 witness: creating the session failed in a run over two seeds.
C11_Witness == mainPc = "setup_error" /\ urls = AllURLs

\* The positions of body whose href resolves.
Resolvable(body) == {i \in 1..Len(body) : ~urljoin_raises(body[i])}

\* C12: when the same href value occurs more than once in a page, the set
\* parse returns holds its link, and holds fewer links than the page has
\* resolvable hrefs (the repeats collapse into one entry); and a task that
\* has finished has put exactly one row into the sink for every link of its
\* set.
C12_DedupWithinPage ==
    [][\A u \in AllURLs :
          /\ (pc[u] = "parsing" /\ pc'[u] # "parsing") =>
                \A i, j \in Resolvable(html[u]) :
                    (i < j /\ html[u][i] = html[u][j]) =>
                        /\ urljoin(u, html[u][i]) \in res'[u]
                        /\ Cardinality(res'[u]) <
                               Cardinality(Resolvable(html[u]))
          /\ pc'[u] = "done" =>
                \A l \in res'[u] : Cardinality(RowsAt(u, l))' = 1]_vars

\* C12 witness: parse holds a page in which one resolvable href value
\* occurs twice, while the other task has finished with a one-link set and
\* one row.
C12_Witness ==
    \E u, v \in urls :
        /\ pc[u] = "parsing"
        /\ \E i, j \in Resolvable(html[u]) : i < j /\ html[u][i] = html[u][j]
        /\ pc[v] = "done" /\ Cardinality(res[v]) = 1
        /\ Cardinality(RowsOf(v)) = 1

\* C13: when parse has run its loop over a page with an href that fails to
\* resolve, the failure is logged, that href adds nothing to the returned
\* set, every later href of the page that resolves is in the set, and parse
\* has returned normally.
C13_MalformedHref ==
    [][\A u \in AllURLs :
          (pc[u] = "parsing" /\ pc'[u] # "parsing") =>
              \A i \in 1..Len(html[u]) :
                  urljoin_raises(html[u][i]) =>
                      /\ "error_parsing_url" \in log'[u]
                      /\ \A j \in Resolvable(html[u]) :
                            j > i => urljoin(u, html[u][j]) \in res'[u]
                      /\ res'[u] \subseteq
                            {urljoin(u, html[u][j]) : j \in Resolvable(html[u])}
                      /\ pc'[u] \in {"done", "opening"}
                      /\ "found_links" \in log'[u]]_vars

\* C13 witness: parse holds a page whose first href fails to resolve and
\* whose second resolves, while the other task has finished and written the
\* rows of a page that had a failing href.
C13_Witness ==
    \E u, v \in urls :
        /\ pc[u] = "parsing" /\ Len(html[u]) = 2
        /\ urljoin_raises(html[u][1]) /\ ~urljoin_raises(html[u][2])
        /\ pc[v] = "done" /\ "error_parsing_url" \in log[v]
        /\ RowsOf(v) # {}

\* The tasks that hold the sink open: between aiofiles.open returning and
\* the file being closed.
SinkHolders == {u \in urls : pc[u] \in {"writing", "closing"}}

\* C14 (as stated): at most one write_one task holds the sink open.
C14_SinkMutualExclusion == Cardinality(SinkHolders) <= 1

\* C15: once the tasks are scheduled there is one task per seed and none
\* for anything else; a task issues its GET when it starts and never a
\* second one, also after a failed fetch.
C15_OneFetchPerSeed ==
    \A u \in AllURLs :
        /\ nGet[u] <= 1
        /\ u \notin urls => (pc[u] = "none" /\ nGet[u] = 0)
        /\ (u \in urls /\ mainPc \in {"gather", "returned", "raised"}) =>
              /\ pc[u] # "none"
              /\ nGet[u] = (IF pc[u] = "scheduled" THEN 0 ELSE 1)

\* C15 witness: in a run over two seeds one fetch has failed and the other
\* has succeeded, both tasks are over, and each has issued one GET.
C15_Witness ==
    /\ urls = AllURLs /\ AllFinished
    /\ \E u, v \in urls :
          FetchFailed(u) /\ "found_links" \in log[v]
    /\ \A u \in urls : nGet[u] = 1

\* C16: the step in which parse returns the empty set ends the task at
\* once: the sink is not opened, nothing is appended or buffered and no
\* "Wrote results" event is logged; and such a task never has a row in the
\* sink afterwards.
C16_EmptyResultNoOp ==
    [][\A u \in AllURLs :
          /\ (InParse(u) /\ ~InParse(u)' /\ res'[u] = {}) =>
                /\ pc'[u] = "done"
                /\ sink' = sink /\ buf'[u] = <<>> /\ todo'[u] = {}
                /\ "wrote_results" \notin log'[u]
          /\ (ParseReturned(u) /\ res[u] = {}) =>
                /\ pc'[u] = "done"
                /\ RowsOf(u)' = {}
                /\ "wrote_results" \notin log'[u]]_vars

\* C16 witness: one task is over after a page without links, the other
\* after a failed fetch; neither has touched the sink.
C16_Witness ==
    \E u, v \in urls :
        /\ pc[u] = "done" /\ "found_links" \in log[u] /\ res[u] = {}
        /\ pc[v] = "done" /\ FetchFailed(v) /\ res[v] = {}
        /\ sink = Header

\* C17: in every step of every task, link extraction starts only from a
\* body that has been read in full; the extraction is done only by a task
\* that holds the body; a row of a source is buffered or put into the sink
\* only by its task writing or closing, after its extraction is done; and
\* while the fetch or the extraction of a source is pending, no row of it
\* is buffered or in the sink.
C17_OrderWithinUnit ==
    [][\A u \in AllURLs :
          /\ (pc'[u] = "parsing" /\ pc[u] # "parsing") =>
                (pc[u] = "reading" /\ "got_response" \in log[u])
          /\ ("found_links" \in log'[u] /\ "found_links" \notin log[u]) =>
                pc[u] = "parsing"
          /\ (RowsOf(u)' # RowsOf(u) \/ (buf'[u] # buf[u] /\ buf'[u] # <<>>)) =>
                /\ pc[u] \in {"writing", "closing"}
                /\ "found_links" \in log[u]
          /\ (pc'[u] = "scheduled" \/ InParse(u)') =>
                (RowsOf(u)' = {} /\ buf'[u] = <<>>)]_vars

\* C17 witness: one task has fetched, extracted and written its rows while
\* the body of the other is still being read and none of its rows exists.
C17_Witness ==
    \E u, v \in urls :
        /\ pc[u] = "done" /\ RowsOf(u) # {}
        /\ {"got_response", "found_links", "wrote_results"} \subseteq log[u]
        /\ pc[v] = "reading" /\ RowsOf(v) = {} /\ buf[v] = <<>>

\* Text s is the beginning of text t.
IsPrefix(s, t) == Len(s) <= Len(t) /\ SubSeq(t, 1, Len(s)) = s

\* C18: every step leaves what the sink held before as the beginning of
\* what it holds after, and the header line the sink held at the call as
\* its first line: the run appends only.
C18_AppendOnly ==
    [][IsPrefix(sink, sink') /\ IsPrefix(Header, sink')]_vars

\* C18 witness: both tasks have put rows into the sink, after the header.
C18_Witness ==
    /\ IsPrefix(Header, sink)
    /\ \A u \in AllURLs : u \in urls /\ pc[u] = "done" /\ RowsOf(u) # {}

\* The tasks whose fetch is in flight: the GET is issued and the response
\* or its body is awaited.
InFlight == {u \in urls : pc[u] \in {"fetching", "reading"}}

\* A maximum in-flight count that does not grow with the seed set: any
\* such maximum is below the size of some seed set; here the largest seed
\* set has Cardinality(AllURLs) seeds.
MaxInFlight == Cardinality(AllURLs) - 1

\* C19 (as stated): the number of fetches in flight never exceeds a
\* maximum that is independent of the number of seeds.
C19_BoundedInFlight == Cardinality(InFlight) <= MaxInFlight

====
